---- MODULE Spec2Model ----
(***************************************************************************)
(* State-machine model of the AI Union Helper front end (src/App.tsx):     *)
(* the App component (chat sessions, the single in-flight gateway request, *)
(* the speech-recognition controller), the getLegalAdvice gateway and the  *)
(* ChatBubble component (speech-synthesis playback).                       *)
(*                                                                         *)
(* Texts are sequences of one-character strings, so that trim(),           *)
(* substring() and length are computed as the code computes them.  A       *)
(* JavaScript object is a record; a property that is undefined is a field  *)
(* the record does not have.                                               *)
(***************************************************************************)
EXTENDS Naturals, Sequences, FiniteSets

VARIABLES
    chats,          \* useLocalStorage('chatHistory'): the session list
    activeChatId,   \* useState: id of the active session, or Null
    userInput,      \* useState: the pending input buffer
    isLoading,      \* useState: a gateway request is in flight
    isListening,    \* useState: the dictation indicator
    speechError,    \* useState: the speech notice, or NoNotice
    recState,       \* the platform recognition engine behind recognitionRef
    inflight,       \* suspended handleSubmit calls awaiting getLegalAdvice
    now,            \* the value Date.now() returns
    store,          \* localStorage: the item under 'chatHistory', and whether
                    \* the storage takes writes
    op,             \* the handler or callback that ran last; for
                    \* recognition.onerror, the error code of its event
    views,          \* ChatBubble instances: mounted, isPlaying, utteranceRef
    synthQueue,     \* window.speechSynthesis: utterances speaking or queued
    synthEvents     \* utterances whose end/error event is still to be delivered

appVars == <<chats, activeChatId, userInput, isLoading, isListening,
             speechError, recState, inflight, now, store>>
audioVars == <<views, synthQueue, synthEvents>>
vars == <<chats, activeChatId, userInput, isLoading, isListening, speechError,
          recState, inflight, now, store, op, views, synthQueue, synthEvents>>

----------------------------------------------------------------------------
(* Bounds of the model *)

MaxSubmits == 3
MaxClock == 2
MaxPad == 1
NumViews == 2
MaxUtterances == 3

(* Program constants *)

TitleLimit == 30

----------------------------------------------------------------------------
(* Values *)

Null == <<"null">>
NoNotice == "null"

Min(a, b) == IF a <= b THEN a ELSE b

Ellipsis == <<".", ".", ".">>

FallbackText == <<"I'm sorry, but I encountered an error. Please try again.">>

ErrorAnswer == <<"Error: Could not connect to AI service.">>

DefaultLanguage == <<"en-US">>

RECOMMENDED_TOPICS ==
    << <<"T", "e", "r", "m", "i", "n", "a", "t", "i", "o", "n", " ", "o", "f",
         " ", "e", "m", "p", "l", "o", "y", "m", "e", "n", "t", " ", "(", "O",
         "p", "p", "s", "i", "g", "e", "l", "s", "e", ")">> >>

----------------------------------------------------------------------------
(* String functions *)

IsSpace(ch) == ch = " "

RECURSIVE TrimStart(_)
TrimStart(s) ==
    IF s # <<>> /\ IsSpace(Head(s)) THEN TrimStart(Tail(s)) ELSE s

RECURSIVE TrimEnd(_)
TrimEnd(s) ==
    IF s # <<>> /\ IsSpace(s[Len(s)])
    THEN TrimEnd(SubSeq(s, 1, Len(s) - 1))
    ELSE s

Trim(s) == TrimEnd(TrimStart(s))

\* s.substring(0, n)
Substring0(s, n) == SubSeq(s, 1, Min(n, Len(s)))

Digit(d) == <<"0", "1", "2", "3", "4", "5", "6", "7", "8", "9">>[d + 1]

\* Number.prototype.toString(): the decimal digits of n
RECURSIVE ToString(_)
ToString(n) ==
    IF n < 10 THEN <<Digit(n)>> ELSE Append(ToString(n \div 10), Digit(n % 10))

\* !x for a value that is null or a string
Falsy(x) == x = Null \/ x = <<>>

----------------------------------------------------------------------------
(* App: derived values *)

\* the sessions whose id is id, by position
ChatsWithId(id) == {i \in DOMAIN chats : chats[i].id = id}

HasActiveChat == ChatsWithId(activeChatId) # {}

\* chats.find(c => c.id === activeChatId): the first match
activeChat ==
    chats[CHOOSE i \in ChatsWithId(activeChatId) :
              \A j \in ChatsWithId(activeChatId) : i <= j]

\* a title cut by the length of the trimmed question
NewChatTitle_TrimmedLength(input) ==
    Substring0(Trim(input), TitleLimit)
        \o (IF Len(Trim(input)) > TitleLimit THEN Ellipsis ELSE <<>>)

\* line 182
NewChatTitle(input) ==
    Substring0(Trim(input), TitleLimit)
        \o (IF Len(input) > TitleLimit THEN Ellipsis ELSE <<>>)

\* a map that forgets the spread of the messages the session has
AppendToChat_Overwrites(prev, id, msg) ==
    [i \in DOMAIN prev |->
        IF prev[i].id = id
        THEN [prev[i] EXCEPT !.messages = <<msg>>]
        ELSE prev[i]]

\* prev.map(c => c.id === id ? { ...c, messages: [...c.messages, msg] } : c)
AppendToChat(prev, id, msg) ==
    [i \in DOMAIN prev |->
        IF prev[i].id = id
        THEN [prev[i] EXCEPT !.messages = Append(@, msg)]
        ELSE prev[i]]

----------------------------------------------------------------------------
(* useLocalStorage('chatHistory', []): the persistent store adapter *)

StoreAbsent == [kind |-> "absent"]

\* an item that is no JSON document
StoreCorrupt == [kind |-> "corrupt"]

\* JSON.stringify of the session list.  A property that is undefined is left
\* out of the document; a record has no such field to begin with.
JsonStringify(list) == [kind |-> "json", value |-> list]

\* a save that writes nothing
Save_Skipped(st, list) == st

\* save(key, value): serialize and write; a write the storage refuses is
\* logged and the item stays what it was
Save(st, list) ==
    IF st.full THEN st ELSE [st EXCEPT !.item = JsonStringify(list)]

\* load(key, defaultValue): the default when the item is absent or does not
\* parse
Load(st) == IF st.item.kind = "json" THEN st.item.value ELSE <<>>

----------------------------------------------------------------------------
(* AI gateway: getLegalAdvice *)

WellFormedPayload ==
    [answer |-> <<"O", "k">>,
     relatedTopics |-> << <<"t">> >>,
     sourceLinks |-> << [title |-> <<"n">>, url |-> <<"u">>] >>,
     language |-> <<"nb-NO">>]

\* JSON of a different shape: none of the AiResponseData properties
OtherShapePayload == [error |-> <<"q">>]

\* What ai.models.generateContent can do: reject, or resolve with a response
\* whose text is a JSON document or not, wrapped in a code fence or not.
BackendOutcomes ==
    {[kind |-> "failure"]}
    \cup {[kind |-> "response", fence |-> f, body |-> b] :
            f \in {"none", "json", "plain"},
            b \in {"notJson", "null", "otherShape", "wellFormed"}}

\* text.replace(/^```json\s*|```$/g, ''): a ```json fence is removed whole; of
\* a bare ``` fence only the closing half is, and the rest is no JSON.
CleanedBody(response) ==
    IF response.fence = "plain" THEN "notJson" ELSE response.body

\* JSON.parse
JsonParse(body) ==
    CASE body = "wellFormed" -> [ok |-> TRUE, type |-> "object", value |-> WellFormedPayload]
      [] body = "otherShape" -> [ok |-> TRUE, type |-> "object", value |-> OtherShapePayload]
      [] body = "null" -> [ok |-> TRUE, type |-> "null"]
      [] OTHER -> [ok |-> FALSE]

getLegalAdvice(backend) ==
    IF backend.kind = "failure"
    THEN [settled |-> "rejected"]
    ELSE LET parsed == JsonParse(CleanedBody(backend))
         IN IF parsed.ok
            THEN [settled |-> "resolved", data |-> parsed]
            ELSE [settled |-> "rejected"]

----------------------------------------------------------------------------
(* App: handleSubmit *)

IsBlank(s) == Trim(s) = <<>>

\* an early return that forgets the request in flight
SubmitIsNoOp_BlankOnly == IsBlank(userInput)

\* line 169: the early return
SubmitIsNoOp == IsBlank(userInput) \/ isLoading

\* line 171: whether the recognition engine is aborted first
SubmitAbortsDictation == isListening

\* recognition.abort(): a session in progress is cut; nothing else changes
AbortEngine(state) ==
    IF state \in {"starting", "listening", "stopping"} THEN "aborted" ELSE state

UserMessage(input, time) ==
    [id |-> ToString(time), role |-> "user", text |-> Trim(input)]

NewChat(input, time) ==
    [id |-> ToString(time),
     title |-> NewChatTitle(input),
     messages |-> <<UserMessage(input, time)>>]

RECURSIVE CountUserMessages(_)
CountUserMessages(list) ==
    IF list = <<>> THEN 0
    ELSE Cardinality({k \in DOMAIN Head(list).messages :
                         Head(list).messages[k].role = "user"})
         + CountUserMessages(Tail(list))

\* a submit that does not raise the flag
FlagAfterSubmit_NotRaised == isLoading

\* line 175
FlagAfterSubmit == TRUE

\* room for one more question within the bounds of the model
SubmitWithinBounds == CountUserMessages(chats) < MaxSubmits

\* lines 167-192: the synchronous part of handleSubmit, up to the await
HandleSubmit ==
    /\ op' = "handleSubmit"
    /\ UNCHANGED <<speechError, now, audioVars>>
    /\ IF SubmitIsNoOp
       THEN UNCHANGED <<chats, activeChatId, userInput, isLoading, isListening,
                        recState, inflight, store>>
       ELSE /\ SubmitWithinBounds
            /\ recState' = IF SubmitAbortsDictation
                           THEN AbortEngine(recState) ELSE recState
            /\ isLoading' = FlagAfterSubmit
            /\ LET userMessage == UserMessage(userInput, now)
                   newChat == NewChat(userInput, now)
                   currentChatId == IF Falsy(activeChatId)
                                    THEN newChat.id ELSE activeChatId
               IN /\ IF Falsy(activeChatId)
                     THEN /\ chats' = <<newChat>> \o chats
                          /\ activeChatId' = newChat.id
                     ELSE /\ chats' = AppendToChat(chats, currentChatId, userMessage)
                          /\ UNCHANGED activeChatId
                  /\ inflight' = Append(inflight,
                         [currentChatId |-> currentChatId,
                          userMessage |-> userMessage])
            /\ store' = Save(store, chats')
            /\ userInput' = <<>>
            /\ UNCHANGED isListening

\* lines 196-201
AiMessage(aiResponseData, time) ==
    IF "answer" \in DOMAIN aiResponseData
    THEN [id |-> ToString(time + 1), role |-> "model",
          text |-> aiResponseData.answer, aiResponseData |-> aiResponseData]
    ELSE [id |-> ToString(time + 1), role |-> "model",
          aiResponseData |-> aiResponseData]

\* lines 204-214
ErrorMessage(time) ==
    [id |-> ToString(time + 1), role |-> "model", text |-> FallbackText,
     aiResponseData |-> [answer |-> ErrorAnswer, relatedTopics |-> <<>>,
                         sourceLinks |-> <<>>, language |-> DefaultLanguage]]

\* The message the continuation appends: the catch block also takes the
\* TypeError of reading .answer of null.
ReplyMessage(result, time) ==
    IF result.settled = "resolved" /\ result.data.type = "object"
    THEN AiMessage(result.data.value, time)
    ELSE ErrorMessage(time)

\* a reply addressed to whatever session is active when it arrives
ReplyTarget_ActiveAtSettle(request) == activeChatId

\* lines 202 and 215: the session the reply is appended to
ReplyTarget(request) == request.currentChatId

\* a flag cleared on the success path only
FlagAfterSettle_SuccessOnly(result) == result.settled = "rejected"

\* line 217: the finally block
FlagAfterSettle(result) == FALSE

RemoveAt(s, i) == SubSeq(s, 1, i - 1) \o SubSeq(s, i + 1, Len(s))

\* lines 194-218: the continuation of handleSubmit once the gateway settles
SubmitSettle(i, backend) ==
    LET request == inflight[i]
        result == getLegalAdvice(backend)
    IN /\ op' = "submitSettle"
       /\ chats' = AppendToChat(chats, ReplyTarget(request),
                                ReplyMessage(result, now))
       /\ store' = Save(store, chats')
       /\ isLoading' = FlagAfterSettle(result)
       /\ inflight' = RemoveAt(inflight, i)
       /\ UNCHANGED <<activeChatId, userInput, isListening, speechError,
                      recState, now, audioVars>>

GatewaySettles ==
    \E i \in DOMAIN inflight : \E backend \in BackendOutcomes :
        SubmitSettle(i, backend)

----------------------------------------------------------------------------
(* App: the other handlers *)

TypedInputs == {<<" ">>, <<" ", "a">>}

\* line 304: textarea onChange
InputChange ==
    \E text \in TypedInputs :
        /\ op' = "onChange"
        /\ userInput' = text
        /\ UNCHANGED <<chats, activeChatId, isLoading, isListening, speechError,
                       recState, inflight, now, store, audioVars>>

\* lines 163-165; the topic buttons are rendered when no session is active
HandleTopicSelect ==
    \E k \in DOMAIN RECOMMENDED_TOPICS :
        /\ ~HasActiveChat
        /\ op' = "handleTopicSelect"
        /\ userInput' = RECOMMENDED_TOPICS[k]
        /\ UNCHANGED <<chats, activeChatId, isLoading, isListening, speechError,
                       recState, inflight, now, store, audioVars>>

\* a New Chat that keeps the text of the input
InputAfterNewChat_Kept == userInput

\* line 160: setUserInput('')
InputAfterNewChat == <<>>

\* lines 158-161
HandleNewChat ==
    /\ op' = "handleNewChat"
    /\ activeChatId' = Null
    /\ userInput' = InputAfterNewChat
    /\ UNCHANGED <<chats, isLoading, isListening, speechError, recState,
                   inflight, now, store, audioVars>>

\* line 242: a click on a session of the sidebar
SelectChat ==
    \E i \in DOMAIN chats :
        /\ op' = "selectChat"
        /\ activeChatId' = chats[i].id
        /\ UNCHANGED <<chats, userInput, isLoading, isListening, speechError,
                       recState, inflight, now, store, audioVars>>

\* Date.now() advances
Tick ==
    /\ now < MaxClock
    /\ now' = now + 1
    /\ op' = "tick"
    /\ UNCHANGED <<chats, activeChatId, userInput, isLoading, isListening,
                   speechError, recState, inflight, store, audioVars>>

----------------------------------------------------------------------------
(* App: the speech-recognition controller *)

Transcripts == {<<"v">>}

\* The codes of SpeechRecognitionErrorEvent.error.  "aborted" is the code of a
\* session cut by abort(); the engine raises the others while it is running.
EngineErrorCodes ==
    {"network", "not-allowed", "service-not-allowed", "no-speech",
     "audio-capture"}

NetworkNotice ==
    "Speech recognition failed due to a network error. Please check your connection."
DeniedNotice ==
    "Microphone access was denied. Please allow it in your browser settings."
UnknownNotice == "An unknown speech recognition error occurred."
StartFailedNotice == "Could not start listening. Please try again."

\* a switch that knows only one of the two permission codes
ErrorNotice_OneDeniedCode(code) ==
    CASE code = "network" -> NetworkNotice
      [] code = "not-allowed" -> DeniedNotice
      [] OTHER -> UnknownNotice

\* lines 96-108: the switch of recognition.onerror
ErrorNotice(code) ==
    CASE code = "network" -> NetworkNotice
      [] code \in {"not-allowed", "service-not-allowed"} -> DeniedNotice
      [] OTHER -> UnknownNotice

\* lines 139-156.  The button is disabled while recognitionRef.current is
\* null (line 296), so the handler runs only with an engine.
HandleToggleListening ==
    /\ op' = "handleToggleListening"
    /\ IF isListening
       THEN \* recognition.stop()
            /\ recState' = IF recState \in {"starting", "listening"}
                           THEN "stopping" ELSE recState
            /\ UNCHANGED <<userInput, speechError>>
       ELSE /\ userInput' = <<>>
            /\ IF recState = "idle"
               THEN \* recognition.start()
                    /\ recState' = "starting"
                    /\ UNCHANGED speechError
               ELSE \* start() throws InvalidStateError: a session is under way
                    /\ speechError' = StartFailedNotice
                    /\ UNCHANGED recState
    /\ UNCHANGED <<chats, activeChatId, isLoading, isListening, inflight, now,
                   store, audioVars>>

\* lines 79-82
RecognitionOnStart ==
    /\ recState = "starting"
    /\ recState' = "listening"
    /\ op' = "recognition.onstart"
    /\ isListening' = TRUE
    /\ speechError' = NoNotice
    /\ UNCHANGED <<chats, activeChatId, userInput, isLoading, inflight, now,
                   store, audioVars>>

\* lines 84-90: the transcript is the concatenation of all results so far
RecognitionOnResult ==
    \E transcript \in Transcripts :
        /\ recState \in {"listening", "stopping"}
        /\ op' = "recognition.onresult"
        /\ userInput' = transcript
        /\ UNCHANGED <<chats, activeChatId, isLoading, isListening, speechError,
                       recState, inflight, now, store, audioVars>>

\* a handler without the early return of the no-speech case
NoticeAfterError_NoReturn(code, notice) == ErrorNotice(code)

\* lines 105-110: the no-speech case returns before setSpeechError
NoticeAfterError(code, notice) ==
    IF code = "no-speech" THEN notice ELSE ErrorNotice(code)

\* lines 92-111
OnErrorEffect(code) ==
    /\ isListening' = FALSE
    /\ speechError' = NoticeAfterError(code, speechError)

ErrorEvents == EngineErrorCodes \cup {"aborted"}

RecognitionOnError ==
    \E code \in ErrorEvents :
        /\ IF code = "aborted"
           THEN recState = "aborted"
           ELSE recState \in {"starting", "listening", "stopping"}
        /\ recState' = "errored"
        /\ op' = code
        /\ OnErrorEffect(code)
        /\ UNCHANGED <<chats, activeChatId, userInput, isLoading, inflight, now,
                       store, audioVars>>

\* lines 113-115
RecognitionOnEnd ==
    /\ recState \in {"listening", "stopping", "errored", "aborted"}
    /\ recState' = "idle"
    /\ op' = "recognition.onend"
    /\ isListening' = FALSE
    /\ UNCHANGED <<chats, activeChatId, userInput, isLoading, speechError,
                   inflight, now, store, audioVars>>

\* lines 127-132: the notice expires after 5 seconds
SpeechErrorTimeout ==
    /\ speechError # NoNotice
    /\ speechError' = NoNotice
    /\ op' = "speechErrorTimeout"
    /\ UNCHANGED <<chats, activeChatId, userInput, isLoading, isListening,
                   recState, inflight, now, store, audioVars>>

----------------------------------------------------------------------------
(* ChatBubble: speech-synthesis playback *)

Views == 1..NumViews
UtteranceIds == 1..MaxUtterances

\* utteranceRef.current = null
NoUtterance == 0

\* the model messages a bubble can show
BubbleMessages ==
    {AiMessage(WellFormedPayload, 1), AiMessage(OtherShapePayload, 1)}

Unmounted ==
    [mounted |-> FALSE, isPlaying |-> FALSE, utteranceRef |-> NoUtterance]

\* new SpeechSynthesisUtterance(...): an object no reference denotes yet
InUse(u) ==
    \/ \E v \in Views : views[v].utteranceRef = u
    \/ \E k \in DOMAIN synthQueue : synthQueue[k].utterance = u
    \/ \E e \in synthEvents : e.utterance = u

HasFreshUtterance == \E u \in UtteranceIds : ~InUse(u)

FreshUtterance ==
    CHOOSE u \in UtteranceIds : ~InUse(u) /\ \A w \in UtteranceIds : ~InUse(w) => u <= w

\* window.speechSynthesis.speaking
Speaking == synthQueue # <<>>

\* a cancel() that leaves the queue as it is
QueueAfterCancel_Kept(queue) == queue

\* window.speechSynthesis.cancel(): every utterance leaves the queue
QueueAfterCancel(queue) == <<>>

\* ... and each of them is owed an end or error event
EventsAfterCancel(queue, events) ==
    events \cup {queue[k] : k \in DOMAIN queue}

\* message.aiResponseData?.answer is a non-empty string
HasAnswerText(message) ==
    /\ "aiResponseData" \in DOMAIN message
    /\ "answer" \in DOMAIN message.aiResponseData
    /\ message.aiResponseData.answer # <<>>

\* lines 527-567
HandleToggleAudio(v) ==
    /\ views[v].mounted
    /\ op' = "handleToggleAudio"
    /\ UNCHANGED appVars
    /\ IF views[v].isPlaying
       THEN /\ synthQueue' = QueueAfterCancel(synthQueue)
            /\ synthEvents' = EventsAfterCancel(synthQueue, synthEvents)
            /\ views' = [views EXCEPT ![v].isPlaying = FALSE]
       ELSE IF ~HasAnswerText(views[v].message)
            THEN UNCHANGED audioVars
            ELSE /\ HasFreshUtterance
                 /\ synthEvents' = EventsAfterCancel(synthQueue, synthEvents)
                 /\ views' = [views EXCEPT ![v].utteranceRef = FreshUtterance,
                                           ![v].isPlaying = TRUE]
                 /\ synthQueue' = Append(QueueAfterCancel(synthQueue),
                        [utterance |-> FreshUtterance, view |-> v])

ToggleAudio == \E v \in Views : HandleToggleAudio(v)

\* The utterance being spoken comes to its end, or fails: it leaves the queue
\* and its end or error event is owed.
UtteranceStops ==
    /\ synthQueue # <<>>
    /\ synthQueue' = Tail(synthQueue)
    /\ synthEvents' = synthEvents \cup {Head(synthQueue)}
    /\ op' = "utteranceStops"
    /\ UNCHANGED <<appVars, views>>

\* lines 547-562: utterance.onend and utterance.onerror make the same state
\* change; they differ in what is logged.  view = 0: the bubble is gone.
\* a callback that does not look at the utterance the bubble tracks
CallbackApplies_AnyUtterance(e) == e.view # 0

\* lines 549 and 556: utteranceRef.current === utterance, in a bubble that
\* is still there
CallbackApplies(e) == e.view # 0 /\ views[e.view].utteranceRef = e.utterance

UtteranceCallback(e) ==
    /\ synthEvents' = synthEvents \ {e}
    /\ op' = "utterance.onend"
    /\ views' = IF CallbackApplies(e)
                THEN [views EXCEPT ![e.view].isPlaying = FALSE]
                ELSE views
    /\ UNCHANGED <<appVars, synthQueue>>

UtteranceEvent == \E e \in synthEvents : UtteranceCallback(e)

\* a bubble is rendered for a model message
MountBubble ==
    \E v \in Views : \E message \in BubbleMessages :
        /\ ~views[v].mounted
        /\ views' = [views EXCEPT ![v] =
               [mounted |-> TRUE, message |-> message, isPlaying |-> FALSE,
                utteranceRef |-> NoUtterance]]
        /\ op' = "mountBubble"
        /\ UNCHANGED <<appVars, synthQueue, synthEvents>>

\* a cleanup that goes by the play button of the bubble
CleanupCancels_WhilePlaying(view) == view.isPlaying /\ Speaking

\* line 483: the condition of the cleanup
CleanupCancels(view) == view.utteranceRef # NoUtterance /\ Speaking

Orphan(e, v) == IF e.view = v THEN [e EXCEPT !.view = 0] ELSE e

\* lines 480-489: the cleanup of the unmount effect
UnmountBubble ==
    \E v \in Views :
        /\ views[v].mounted
        /\ op' = "unmountBubble"
        /\ views' = [views EXCEPT ![v] = Unmounted]
        /\ IF CleanupCancels(views[v])
           THEN /\ synthQueue' = QueueAfterCancel(synthQueue)
                /\ synthEvents' =
                       {Orphan(e, v) : e \in EventsAfterCancel(synthQueue, synthEvents)}
           ELSE /\ synthQueue' = synthQueue
                /\ synthEvents' = {Orphan(e, v) : e \in synthEvents}
        /\ UNCHANGED appVars

----------------------------------------------------------------------------
(* Long questions, for the title of a new session *)

Pad(n) == [i \in 1..n |-> " "]

\* n characters that show where a text is cut
Body(n) == [i \in 1..n |-> Digit(i % 10)]

TitleInputs ==
    {Pad(l) \o Body(n) \o Pad(t) :
        l \in 0..MaxPad, t \in 0..MaxPad,
        n \in (TitleLimit - 1)..(TitleLimit + 1)}

\* line 304: textarea onChange, with questions about as long as a title
LongInputChange ==
    \E text \in TitleInputs :
        /\ op' = "onChange"
        /\ userInput' = text
        /\ UNCHANGED <<chats, activeChatId, isLoading, isListening, speechError,
                       recState, inflight, now, store, audioVars>>

----------------------------------------------------------------------------
(* The page is loaded again; the storage outside the program *)

\* The page is closed and opened again: every useState starts from its
\* initial value, the session list from the store; the suspended handleSubmit
\* calls, the recognition session and the utterances go with the old page.
Restart ==
    /\ op' = "restart"
    /\ chats' = Load(store)
    /\ activeChatId' = Null
    /\ userInput' = <<>>
    /\ isLoading' = FALSE
    /\ isListening' = FALSE
    /\ speechError' = NoNotice
    /\ recState' = "idle"
    /\ inflight' = <<>>
    /\ views' = [v \in Views |-> Unmounted]
    /\ synthQueue' = <<>>
    /\ synthEvents' = {}
    /\ UNCHANGED <<now, store>>

\* the storage runs out of quota, or has room again
StorageQuotaChanges ==
    /\ store' = [store EXCEPT !.full = ~store.full]
    /\ op' = "storageQuota"
    /\ UNCHANGED <<chats, activeChatId, userInput, isLoading, isListening,
                   speechError, recState, inflight, now, audioVars>>

\* the item is cleared, or overwritten with something that is no JSON
StorageItemLost ==
    \E item \in {StoreAbsent, StoreCorrupt} :
        /\ store.item.kind = "json"
        /\ store' = [store EXCEPT !.item = item]
        /\ op' = "storageItemLost"
        /\ UNCHANGED <<chats, activeChatId, userInput, isLoading, isListening,
                       speechError, recState, inflight, now, audioVars>>

----------------------------------------------------------------------------
(* Specifications *)

Init ==
    /\ chats = <<>>
    /\ activeChatId = Null
    /\ userInput = <<>>
    /\ isLoading = FALSE
    /\ isListening = FALSE
    /\ speechError = NoNotice
    /\ recState = "idle"
    /\ inflight = <<>>
    /\ now = 1
    /\ store = [item |-> StoreAbsent, full |-> FALSE]
    /\ op = "mount"
    /\ views = [v \in Views |-> Unmounted]
    /\ synthQueue = <<>>
    /\ synthEvents = {}

\* the conversation store
Next ==
    \/ HandleSubmit
    \/ GatewaySettles
    \/ InputChange
    \/ HandleNewChat
    \/ SelectChat
    \/ Tick

Spec == Init /\ [][Next]_vars

\* the conversation store with a gateway whose calls all settle: a promise
\* that can settle is not left pending forever
SpecFair == Init /\ [][Next]_vars /\ WF_vars(GatewaySettles)

\* one conversation with the speech-recognition controller
NextSpeech ==
    \/ HandleSubmit
    \/ GatewaySettles
    \/ InputChange
    \/ HandleToggleListening
    \/ RecognitionOnStart
    \/ RecognitionOnResult
    \/ RecognitionOnError
    \/ RecognitionOnEnd
    \/ SpeechErrorTimeout

SpecSpeech == Init /\ [][NextSpeech]_vars

\* the title of the session a long question creates
NextTitle ==
    \/ LongInputChange
    \/ HandleTopicSelect
    \/ HandleSubmit

SpecTitle == Init /\ [][NextTitle]_vars

\* the bubbles of the messages and the speech-synthesis channel
NextAudio ==
    \/ MountBubble
    \/ UnmountBubble
    \/ ToggleAudio
    \/ UtteranceStops
    \/ UtteranceEvent

SpecAudio == Init /\ [][NextAudio]_vars

\* dictation around one question, with a recognition engine that does not
\* fail and a gateway call that stays pending
NextDictation ==
    \/ HandleSubmit
    \/ InputChange
    \/ HandleTopicSelect
    \/ HandleNewChat
    \/ HandleToggleListening
    \/ RecognitionOnStart
    \/ RecognitionOnResult
    \/ RecognitionOnEnd

SpecDictation == Init /\ [][NextDictation]_vars

\* the conversation store over restarts of the page
NextStore ==
    \/ HandleSubmit
    \/ GatewaySettles
    \/ InputChange
    \/ SelectChat
    \/ Restart
    \/ StorageQuotaChanges
    \/ StorageItemLost

SpecStore == Init /\ [][NextStore]_vars

----------------------------------------------------------------------------
(* Properties *)

Last(s) == s[Len(s)]

IsPrefixOf(s, t) == Len(s) <= Len(t) /\ SubSeq(t, 1, Len(s)) = s

\* position of the session chats.find(c => c.id === id) returns
FirstWithId(list, id) ==
    CHOOSE i \in DOMAIN list :
        list[i].id = id /\ \A j \in DOMAIN list : list[j].id = id => i <= j

\* a step in which handleSubmit passes its guard
AcceptedSubmitStep == op' = "handleSubmit" /\ ~isLoading /\ isLoading'

\* a step in which a suspended handleSubmit resumes and finishes
SettleStep == Len(inflight') < Len(inflight)

AllMessages ==
    UNION {{chats[i].messages[k] : k \in DOMAIN chats[i].messages} :
              i \in DOMAIN chats}

(* C1: the reply to a question goes to the session that was active when the
   question was submitted (A), found by the id captured then; the session that
   is active when the reply arrives (B), if it is another one, is left as it
   was. *)
C1_ReplyAttribution ==
    /\ [][AcceptedSubmitStep =>
            LET request == Last(inflight')
                a == FirstWithId(chats', activeChatId')
            IN /\ request.currentChatId = activeChatId'
               /\ Last(chats'[a].messages) = request.userMessage]_vars
    /\ [][SettleStep =>
            \E r \in DOMAIN inflight :
                LET a == FirstWithId(chats, inflight[r].currentChatId)
                IN /\ inflight' = RemoveAt(inflight, r)
                   /\ Len(chats') = Len(chats)
                   /\ Len(chats'[a].messages) = Len(chats[a].messages) + 1
                   /\ IsPrefixOf(chats[a].messages, chats'[a].messages)
                   /\ Last(chats'[a].messages).role = "model"
                   /\ HasActiveChat /\ FirstWithId(chats, activeChatId) # a
                        => chats'[FirstWithId(chats, activeChatId)]
                               = chats[FirstWithId(chats, activeChatId)]]_vars

\* a reply has just arrived in a session that is not the active one
C1_Witness ==
    /\ op = "submitSettle"
    /\ HasActiveChat
    /\ \E a \in DOMAIN chats :
          /\ chats[a].id # activeChatId
          /\ Last(chats[a].messages).role = "model"
          /\ Last(chats[a].messages).id = ToString(now + 1)
          /\ Last(activeChat.messages).role = "model"

(* C2: a submit with a blank input, or while a request is in flight, changes
   nothing: not the sessions, the active session, the input, the flag, the
   pending gateway calls or the recognition engine.  So at most one gateway
   call is pending at any time. *)
C2_SubmitNoOp ==
    /\ [][(op' = "handleSubmit" /\ (IsBlank(userInput) \/ isLoading)) =>
            /\ chats' = chats
            /\ activeChatId' = activeChatId
            /\ userInput' = userInput
            /\ isLoading' = isLoading
            /\ inflight' = inflight
            /\ recState' = recState]_vars
    /\ [](Len(inflight) <= 1)

\* a submit was refused while a request was in flight and dictation was on
C2_Witness ==
    /\ op = "handleSubmit"
    /\ isLoading
    /\ Len(inflight) = 1
    /\ ~IsBlank(userInput)
    /\ recState = "listening"

(* C3: when the gateway call of a submit settles, by resolving or by
   rejecting, the flag is false right after; the flag is never left true with
   no call pending. *)
C3_FlagClearsOnSettle ==
    /\ [][SettleStep => ~isLoading']_vars
    /\ [](isLoading => inflight # <<>>)

\* a rejected call has settled and the flag is down
C3_Witness ==
    /\ op = "submitSettle"
    /\ ~isLoading
    /\ \E i \in DOMAIN chats : Last(chats[i].messages) = ErrorMessage(now)

(* C4: whenever some session ends with a user message that has no reply yet,
   or a gateway call is pending, the flag is true. *)
C4_FlagCoversExchange ==
    /\ (\E i \in DOMAIN chats : Last(chats[i].messages).role = "user") => isLoading
    /\ inflight # <<>> => isLoading

\* a question is waiting for its reply
C4_Witness ==
    /\ isLoading
    /\ \E i \in DOMAIN chats :
          /\ Len(chats[i].messages) > 2
          /\ Last(chats[i].messages).role = "user"

(* C5: in every session every model message comes right after a user message,
   the one it replies to. *)
C5_ReplyFollowsQuestion ==
    \A i \in DOMAIN chats : \A k \in DOMAIN chats[i].messages :
        chats[i].messages[k].role = "model" =>
            k > 1 /\ chats[i].messages[k - 1].role = "user"

(* C6: the model message appended for a failed gateway call carries the fixed
   fallback text as the answer of its AiResponseData, with no related topics,
   no source links and the default language; every model message is either a
   gateway payload or that fallback. *)
C6_FallbackAnswer ==
    \A m \in AllMessages :
        m.role = "model" =>
            \/ m.aiResponseData \in {WellFormedPayload, OtherShapePayload}
            \/ m.aiResponseData =
                  [answer |-> FallbackText, relatedTopics |-> <<>>,
                   sourceLinks |-> <<>>, language |-> DefaultLanguage]

(* C7: an accepted submit with no active session puts one new session at the
   head of the list, holding only the user message with the trimmed input, and
   makes it active; an accepted submit with an active session adds no session
   and appends that user message to the active session and to no other. *)
C7_SubmitCreatesOrAppends ==
    [][AcceptedSubmitStep =>
        LET userMessage == [id |-> ToString(now), role |-> "user",
                            text |-> Trim(userInput)]
        IN IF activeChatId = Null
           THEN /\ Len(chats') = Len(chats) + 1
                /\ Tail(chats') = chats
                /\ Head(chats').messages = <<userMessage>>
                /\ activeChatId' = Head(chats').id
           ELSE /\ Len(chats') = Len(chats)
                /\ activeChatId' = activeChatId
                /\ \A i \in DOMAIN chats :
                      chats'[i] =
                         IF i = FirstWithId(chats, activeChatId)
                         THEN [chats[i] EXCEPT !.messages = Append(@, userMessage)]
                         ELSE chats[i]]_vars

(* C8: the title of the session a question q creates is the first 30
   characters of trim(q), followed by "..." exactly when q, untrimmed, is
   longer than 30 characters. *)
C8_TitleOfNewSession ==
    [][(AcceptedSubmitStep /\ activeChatId = Null) =>
        LET q == userInput
            title == Head(chats').title
            cut == Len(q) > TitleLimit
            stem == IF cut THEN SubSeq(title, 1, Len(title) - 3) ELSE title
        IN /\ cut => Len(title) >= 3 /\ SubSeq(title, Len(title) - 2, Len(title)) = Ellipsis
           /\ IsPrefixOf(stem, Trim(q))
           /\ Len(stem) = Min(TitleLimit, Len(Trim(q)))
           /\ Len(q) = TitleLimit => title = Trim(q)
           /\ Len(q) = TitleLimit + 1 =>
                 title = SubSeq(Trim(q), 1, Min(TitleLimit, Len(Trim(q)))) \o Ellipsis]_vars

\* a question of 31 characters, 30 of them after trimming: the title is the
\* whole trimmed question and the ellipsis
C8_Witness ==
    /\ op = "handleSubmit"
    /\ chats # <<>>
    /\ Len(Head(chats).messages[1].text) = TitleLimit
    /\ Head(chats).title = Head(chats).messages[1].text \o Ellipsis

(* C9: when a submit is accepted while a listening session of the recognition
   engine is under way (from start() until the session ends), the engine is
   aborted, so that it delivers no further result. *)
C9_SubmitAbortsDictation ==
    [][(AcceptedSubmitStep /\ recState \in {"starting", "listening", "stopping"})
          => recState' = "aborted"]_vars

(* C10: at most one utterance is speaking or queued, and it is the one the
   bubble that started it tracks; starting playback on a bubble cancels
   whatever was speaking and leaves that bubble's utterance alone in the
   queue. *)
C10_SingleUtterance ==
    /\ [](/\ Len(synthQueue) <= 1
          /\ \A k \in DOMAIN synthQueue :
                /\ views[synthQueue[k].view].mounted
                /\ views[synthQueue[k].view].utteranceRef = synthQueue[k].utterance)
    /\ [][\A v \in Views :
            (op' = "handleToggleAudio" /\ ~views[v].isPlaying /\ views'[v].isPlaying)
              => /\ synthQueue' = <<[utterance |-> views'[v].utteranceRef, view |-> v]>>
                 /\ \A k \in DOMAIN synthQueue : synthQueue[k] \in synthEvents']_vars

\* playback was started on a bubble while another bubble's utterance was
\* speaking: the other one was cancelled
C10_Witness ==
    /\ op = "handleToggleAudio"
    /\ Len(synthQueue) = 1
    /\ \E e \in synthEvents :
          /\ e.view # 0
          /\ e.view # synthQueue[1].view
          /\ views[e.view].isPlaying

(* C11: the end or error callback of an utterance changes isPlaying only in
   the bubble that created the utterance and only while that bubble still
   tracks it, and then to false; it changes no utteranceRef and leaves the
   queue of the engine as it is.  So a callback that arrives after a later
   utterance has started neither stops that utterance nor touches the bubble
   that plays it. *)
C11_StaleCallbackIgnored ==
    [][op' = "utterance.onend" =>
        \E e \in synthEvents :
            /\ synthEvents' = synthEvents \ {e}
            /\ synthQueue' = synthQueue
            /\ \A v \in Views :
                  /\ views'[v].mounted = views[v].mounted
                  /\ views'[v].utteranceRef = views[v].utteranceRef
                  /\ views'[v].isPlaying # views[v].isPlaying =>
                        /\ e.view = v
                        /\ views[v].utteranceRef = e.utterance
                        /\ ~views'[v].isPlaying
                  /\ (\E k \in DOMAIN synthQueue :
                          /\ synthQueue[k].view = v
                          /\ synthQueue[k].utterance # e.utterance)
                        => views'[v] = views[v]]_vars

\* the callback of the first utterance has just been delivered; the one
\* bubble there is plays its second utterance and goes on playing
C11_Witness ==
    /\ op = "utterance.onend"
    /\ synthEvents = {}
    /\ \E v \in Views :
          /\ views[v].mounted
          /\ views[v].isPlaying
          /\ views[v].utteranceRef = 2
          /\ synthQueue = <<[utterance |-> 2, view |-> v]>>
          /\ \A w \in Views \ {v} : views[w] = Unmounted

(* C12: a recognition error event with code no-speech leaves the speech
   notice as it was, whether there was one or not, and leaves isListening
   false. *)
C12_NoSpeechSuppressed ==
    [][op' = "no-speech" => speechError' = speechError /\ ~isListening']_vars

\* a no-speech event has just been delivered while a notice was showing, and
\* the notice is still there
C12_Witness ==
    /\ op = "no-speech"
    /\ speechError # NoNotice
    /\ ~isListening
    /\ recState = "errored"

(* C19: after every recognition error event, whatever its code, isListening
   is false; for every code but no-speech the notice shown is the network one
   for network, the permission one for not-allowed and service-not-allowed,
   and the unknown-error one for every other code. *)
C19_ErrorReturnsToIdle ==
    [][op' \in ErrorEvents =>
        /\ ~isListening'
        /\ op' = "network" => speechError' = NetworkNotice
        /\ op' \in {"not-allowed", "service-not-allowed"} =>
              speechError' = DeniedNotice
        /\ op' \notin {"network", "not-allowed", "service-not-allowed",
                        "no-speech"} => speechError' = UnknownNotice]_vars

\* the service refused the microphone after dictation had delivered a
\* transcript: the indicator is off and the permission notice shows
C19_Witness ==
    /\ op = "service-not-allowed"
    /\ userInput \in Transcripts
    /\ ~isListening
    /\ speechError = DeniedNotice

(* C13: either no session is active, or exactly one session of the list has
   the id of the active session. *)
C13_OneActiveSession ==
    activeChatId = Null \/ Cardinality(ChatsWithId(activeChatId)) = 1

(* C18: within every session the ids of the messages are pairwise distinct. *)
C18_DistinctMessageIds ==
    \A i \in DOMAIN chats : \A k, l \in DOMAIN chats[i].messages :
        k # l => chats[i].messages[k].id # chats[i].messages[l].id

(* C14: the payload of every model message has the four properties of
   AiResponseData: answer, relatedTopics, sourceLinks and language; the
   gateway never resolves with a payload that lacks one of them. *)
C14_CompletePayload ==
    \A m \in AllMessages :
        m.role = "model" =>
            {"answer", "relatedTopics", "sourceLinks", "language"}
                \subseteq DOMAIN m.aiResponseData

(* C15: after every step of the running program that changes the session
   list, the item under the key is the document of the new list; after a
   restart the list is the one the item holds, or empty if the item is absent
   or no JSON. *)
C15_PersistedEqualsMemory ==
    /\ [][(chats' # chats /\ op' # "restart") =>
             store'.item = [kind |-> "json", value |-> chats']]_vars
    /\ [][op' = "restart" =>
             chats' = IF store.item.kind = "json"
                      THEN store.item.value ELSE <<>>]_vars

(* C15, amended: ... unless the storage refuses the write, and then the item
   stays what it was. *)
C15_PersistedUnlessRefused ==
    /\ [][(chats' # chats /\ op' # "restart") =>
             store'.item = IF store.full THEN store.item
                           ELSE [kind |-> "json", value |-> chats']]_vars
    /\ [][op' = "restart" =>
             chats' = IF store.item.kind = "json"
                      THEN store.item.value ELSE <<>>]_vars

\* a question was appended to a session while the storage was out of quota:
\* the item still holds the list as it was before
C15_Witness ==
    /\ op = "handleSubmit"
    /\ store.full
    /\ isLoading
    /\ store.item.kind = "json"
    /\ Len(store.item.value) = Len(chats)
    /\ store.item.value # chats

(* C16: New Chat can be used in every state; it sets the active session to
   null and the input to the empty string, and leaves the session list, the
   flag, the pending gateway call, the store and the dictation as they
   were. *)
C16_NewChatFrame ==
    /\ [](ENABLED HandleNewChat)
    /\ [][op' = "handleNewChat" =>
             /\ activeChatId' = Null
             /\ userInput' = <<>>
             /\ UNCHANGED <<chats, isLoading, inflight, store, isListening,
                            recState, speechError>>]_vars

\* New Chat was used while a request was in flight and dictation was
\* listening
C16_Witness ==
    /\ op = "handleNewChat"
    /\ activeChatId = Null
    /\ userInput = <<>>
    /\ isLoading
    /\ Len(inflight) = 1
    /\ isListening
    /\ recState = "listening"

(* C17: across every step of the running program the history only grows: no
   session leaves the list, the sessions there keep their order, id and
   title, and the messages a session had are a prefix of the messages it has
   afterwards.  A new session is put in front of the others. *)
C17_HistoryMonotone ==
    [][/\ Len(chats') >= Len(chats)
       /\ \A i \in DOMAIN chats :
             LET after == chats'[i + (Len(chats') - Len(chats))]
             IN /\ after.id = chats[i].id
                /\ after.title = chats[i].title
                /\ IsPrefixOf(chats[i].messages, after.messages)]_vars

\* a reply has just been appended to the older of two sessions, which now
\* holds two exchanges
C17_Witness ==
    /\ op = "submitSettle"
    /\ Len(chats) = 2
    /\ chats[1].id # chats[2].id
    /\ activeChatId = chats[2].id
    /\ Len(chats[2].messages) = 4
    /\ Last(chats[2].messages).id = ToString(now + 1)
    /\ Len(chats[1].messages) = 2

(* C20: starting dictation first empties the input; and while a listening
   session is under way, from one state of it to the next, the input is
   written by the result events of the engine only, never by the textarea or
   by a topic button. *)
C20_ExclusiveWriters ==
    /\ [][(op' = "handleToggleListening" /\ ~isListening /\ recState = "idle")
             => userInput' = <<>>]_vars
    /\ [][(isListening /\ recState = "listening" /\ recState' = "listening")
             => op' \notin {"onChange", "handleTopicSelect"}]_vars

(* C21: when a bubble is unmounted, whatever is speaking or queued is
   cancelled, whether or not the bubble ever started an utterance: right
   after the unmount the engine has no utterance. *)
C21_TeardownCancelsAll ==
    [][op' = "unmountBubble" => synthQueue' = <<>>]_vars

(* C21, amended: when a bubble that has started an utterance at some time is
   unmounted, whatever is speaking or queued is cancelled and is owed its
   event; when a bubble that never started one is unmounted, the engine is
   left as it is. *)
C21_TeardownCancelsIfStarted ==
    [][op' = "unmountBubble" =>
        \E v \in Views :
            /\ views[v].mounted /\ ~views'[v].mounted
            /\ IF views[v].utteranceRef # NoUtterance
               THEN /\ synthQueue' = <<>>
                    /\ \A k \in DOMAIN synthQueue :
                          \E e \in synthEvents' :
                              e.utterance = synthQueue[k].utterance
               ELSE synthQueue' = synthQueue]_vars

\* a bubble that never played has just been unmounted while the utterance
\* of another bubble is speaking, and it goes on speaking
C21_Witness ==
    /\ op = "unmountBubble"
    /\ Len(synthQueue) = 1
    /\ views[synthQueue[1].view].isPlaying
    /\ \E v \in Views : ~views[v].mounted

(* C22: in every state, also after the page has been loaded again from the
   store, the messages of every session alternate user, model, user, ...
   from a user message on; at most one session ends with a user message, and
   one does only while the flag is true. *)
C22_AlternationAcrossRestart ==
    /\ \A i \in DOMAIN chats : \A k \in DOMAIN chats[i].messages :
          chats[i].messages[k].role = IF k % 2 = 1 THEN "user" ELSE "model"
    /\ Cardinality({i \in DOMAIN chats :
                       Last(chats[i].messages).role = "user"}) <= 1
    /\ (\E i \in DOMAIN chats : Last(chats[i].messages).role = "user")
          => isLoading

(* C23: if every gateway call settles, every question is answered once: in
   every session a user message that is not the last one is followed by one
   model message and then, if anything, by the next user message; a session
   that ends with a user message eventually ends with its reply; and the
   flag, once true, eventually is false again. *)
C23_EveryQuestionAnsweredOnce ==
    /\ [](\A i \in DOMAIN chats : \A k \in DOMAIN chats[i].messages :
            (chats[i].messages[k].role = "user" /\ k < Len(chats[i].messages))
              => /\ chats[i].messages[k + 1].role = "model"
                 /\ k + 2 <= Len(chats[i].messages)
                      => chats[i].messages[k + 2].role = "user")
    /\ ((\E i \in DOMAIN chats : Last(chats[i].messages).role = "user")
          ~> (\A i \in DOMAIN chats : Last(chats[i].messages).role = "model"))
    /\ (isLoading ~> ~isLoading)

(* C24: the title of the session a question creates ends with "..." exactly
   when the trimmed question is longer than 30 characters, and is then its
   first 30 characters and the ellipsis; a question whose trimmed text has at
   most 30 characters, padded or not, gets that text as its title. *)
C24_EllipsisIffTruncated ==
    [][(AcceptedSubmitStep /\ activeChatId = Null) =>
        LET stored == Head(chats').messages[1].text
            title == Head(chats').title
        IN /\ stored = Trim(userInput)
           /\ title = IF Len(stored) > TitleLimit
                      THEN SubSeq(stored, 1, TitleLimit) \o Ellipsis
                      ELSE stored]_vars

====
